---- MODULE Spec2Model ----
(***************************************************************************)
(* Model of the SPOS scheduler (os_scheduler.c) and of its scheduling      *)
(* strategies (os_scheduling_strategies.c).                                *)
(*                                                                         *)
(* Two specifications share the variables:                                 *)
(*   Spec      - the kernel: boot, os_initScheduler, os_startScheduler,    *)
(*               the timer ISR, os_exec and the critical-section gate;     *)
(*   StratSpec - the five strategy functions applied to arbitrary          *)
(*               process-table snapshots.                                  *)
(***************************************************************************)
EXTENDS Integers, Sequences, FiniteSets, TLC

\* ------------------------------------------------------------------ bounds
MaxTicks      == 4  \* timer interrupts served in one behaviour
MaxNest       == 2  \* critical-section depth the callers go to
MaxExecCalls  == 1  \* os_exec calls made after os_initScheduler
MaxAutostart  == 1  \* length of the short autostart lists
MaxPriority   == 1  \* priorities passed to os_exec: 0..MaxPriority
MaxRand       == 2  \* values rand() is drawn from: 0..MaxRand
MaxUserPush   == 1  \* bytes the running program keeps on its stack
MaxRunning    == 1  \* RUNNING slots in a snapshot handed to a strategy
MaxStratCalls == 1  \* strategy calls per behaviour of StratSpec
MaxEvents     == 1  \* strategy changes, corruptions, terminations

\* ------------------------------------------------- constants of defines.h
MAX_NUMBER_OF_PROCESSES == 8
INVALID_PROCESS  == 255
DEFAULT_PRIORITY == 2
\* Stack bytes per process (the target has some hundred).
STACK_SIZE_PROC  == 48
\* saveContext pushes SREG and r0..r31 (os_exec line 183 primes as many)
CONTEXT_BYTES    == 33

OS_PS_UNUSED  == "UNUSED"
OS_PS_READY   == "READY"
OS_PS_RUNNING == "RUNNING"
ProcessStates == {OS_PS_UNUSED, OS_PS_READY, OS_PS_RUNNING}

OS_SS_EVEN              == "EVEN"
OS_SS_RANDOM            == "RANDOM"
OS_SS_RUN_TO_COMPLETION == "RUN_TO_COMPLETION"
OS_SS_ROUND_ROBIN       == "ROUND_ROBIN"
OS_SS_INACTIVE_AGING    == "INACTIVE_AGING"
Strategies == {OS_SS_EVEN, OS_SS_RANDOM, OS_SS_RUN_TO_COMPLETION,
               OS_SS_ROUND_ROBIN, OS_SS_INACTIVE_AGING}

Slots == 0 .. (MAX_NUMBER_OF_PROCESSES - 1)

\* Program entry addresses (16 bit, flash word addresses); NULL is 0.
NULL == 0
idle == 258
UserPrograms == {772}
Programs == {idle} \cup UserPrograms

\* A strategy whose search loop can never exit "returns" NoReturn.
NoReturn == -1

\* ------------------------------------------------------------ memory map
BOTTOM_OF_PROCS_STACK == MAX_NUMBER_OF_PROCESSES * STACK_SIZE_PROC - 1
PROCESS_STACK_BOTTOM(pid) == BOTTOM_OF_PROCS_STACK - pid * STACK_SIZE_PROC
BOTTOM_OF_ISR_STACK == BOTTOM_OF_PROCS_STACK + STACK_SIZE_PROC
BOTTOM_OF_MAIN_STACK == BOTTOM_OF_ISR_STACK + 2

\* The stack region slot p owns: [StackLow(p), PROCESS_STACK_BOTTOM(p)]
StackLow(p) == PROCESS_STACK_BOTTOM(p) - STACK_SIZE_PROC + 1

\* ------------------------------------------------------------ byte helpers
Bit(b, k) == (b \div (2 ^ k)) % 2
LowByte(w)  == w % 256
HighByte(w) == (w \div 256) % 256

VARIABLES
  os_processes,          \* the process table
  currentProcess,        \* the index the ISR works with
  currentProc,           \* the id os_getCurrentProc reports
  actual,                \* the active scheduling strategy
  criticalSectionCount,  \* nesting depth of critical sections
  schedulingInfo,        \* [timeSlice, age]
  mem,                   \* SRAM: the process stacks and the ISR stack
  SP,                    \* hardware stack pointer
  cpuPC,                 \* program the CPU executes (entry address)
  SREG_I,                \* global interrupt enable bit
  OCIE2A,                \* TIMSK2.OCIE2A: TRUE = scheduler tick unmasked
  error,                 \* "none", or the message os_errorPStr was given
  phase,                 \* "boot", "init", "run", "strat"
  ticks,                 \* timer interrupts (strategy calls) so far
  execCalls,             \* os_exec calls made after os_initScheduler
  csEntry,               \* mask bits when the outermost section was entered
  last,                  \* what the last operation was and returned
  hist                   \* what happened so far: tick streak, outside events

vars == <<os_processes, currentProcess, currentProc, actual,
          criticalSectionCount, schedulingInfo, mem, SP, cpuPC, SREG_I,
          OCIE2A, error, phase, ticks, execCalls, csEntry, last, hist>>

NoOp == [op |-> "none", ret |-> 0, sel |-> 0, sp |-> 0, arg |-> 0,
         strat |-> "none"]

\* prevSel: the slot the previous tick selected (NoSlot when the set of
\* occupied slots changed since); run: how many consecutive ticks selected
\* it; corrupted: slots whose stack outside code has changed; events: how
\* many outside events (strategy change, corruption, termination) happened;
\* requested: the strategy os_setSchedulingStrategy was last called with.
NoSlot == -2
NoHist == [prevSel |-> NoSlot, run |-> 0, corrupted |-> {}, events |-> 0,
           requested |-> "none"]

\* ---------------------------------------------------------- process table
EmptySlot == [state |-> OS_PS_UNUSED, program |-> NULL, priority |-> 0,
              sp |-> 0, checksum |-> 0]

\* SRAM is a function from the addresses that hold a non-zero byte to that
\* byte; every other address holds 0.
Read(m, a) == IF a \in DOMAIN m THEN m[a] ELSE 0

\* m after the bytes w (a function from addresses to bytes) are stored.
Store(m, w) ==
  LET now(a) == IF a \in DOMAIN w THEN w[a] ELSE m[a]
  IN [a \in {x \in DOMAIN m \cup DOMAIN w : now(x) # 0} |-> now(a)]

\* os_getStackChecksum: the XOR of the STACK_SIZE_PROC + 1 bytes at
\* PROCESS_STACK_BOTTOM(pid) + p for p = 0 .. STACK_SIZE_PROC.  Bit k of an
\* XOR fold is the parity of the number of bytes that have bit k set.
XorFold(m, A) ==
  LET par(k) == Cardinality({a \in A : Bit(m[a], k) = 1}) % 2
  IN par(0) + 2 * par(1) + 4 * par(2) + 8 * par(3) + 16 * par(4)
     + 32 * par(5) + 64 * par(6) + 128 * par(7)

os_getStackChecksum(m, pid) ==
  XorFold(m, {a \in DOMAIN m : /\ a >= PROCESS_STACK_BOTTOM(pid)
                               /\ a <= PROCESS_STACK_BOTTOM(pid)
                                         + STACK_SIZE_PROC})

\* ------------------------------------------------- critical-section gate
\* The gate state is the record [count, ocie, gie, err].
Gate == [count |-> criticalSectionCount, ocie |-> OCIE2A, gie |-> SREG_I,
         err |-> error]

\* The mutant forgets to mask the timer interrupt.
os_enterCriticalSection_NoMask(g) ==
  IF g.count = 255
  THEN [g EXCEPT !.gie = FALSE, !.err = "Critical section overflow"]
  ELSE [g EXCEPT !.count = @ + 1]

os_enterCriticalSection(g) ==
  IF g.count = 255
  THEN [g EXCEPT !.gie = FALSE, !.err = "Critical section overflow"]
  ELSE [g EXCEPT !.count = @ + 1, !.ocie = FALSE]

os_leaveCriticalSection(g) ==
  IF g.count = 0
  THEN [g EXCEPT !.gie = FALSE, !.err = "Critical Sections don't match"]
  ELSE [g EXCEPT !.count = @ - 1,
                 !.ocie = IF g.count - 1 = 0 THEN TRUE ELSE @]

\* ------------------------------------------------------------------ os_exec
\* A kernel record K bundles what os_exec reads and writes:
\* [processes, info, mem, gate, ret].
Kernel == [processes |-> os_processes, info |-> schedulingInfo, mem |-> mem,
           gate |-> Gate, ret |-> 0]

\* The mutant stops the scan one slot early, so a full table yields slot 7.
FirstUnused_ShortScan(processes) ==
  IF \E p \in 0 .. (MAX_NUMBER_OF_PROCESSES - 2) :
        processes[p].state = OS_PS_UNUSED
  THEN CHOOSE p \in Slots : /\ processes[p].state = OS_PS_UNUSED
                            /\ \A q \in 0 .. (p - 1) :
                                  processes[q].state # OS_PS_UNUSED
  ELSE MAX_NUMBER_OF_PROCESSES - 1

\* for (pid = 0; pid < MAX_NUMBER_OF_PROCESSES; pid++) if UNUSED break;
FirstUnused(processes) ==
  IF \E p \in Slots : processes[p].state = OS_PS_UNUSED
  THEN CHOOSE p \in Slots : /\ processes[p].state = OS_PS_UNUSED
                            /\ \A q \in 0 .. (p - 1) :
                                  processes[q].state # OS_PS_UNUSED
  ELSE MAX_NUMBER_OF_PROCESSES

os_resetProcessSchedulingInformation(info, id) == [info EXCEPT !.age[id] = 0]

\* A return address and a register file of zeros, stored downwards from
\* address top: low byte, high byte, CONTEXT_BYTES zeros.
Frame(top, pc) ==
  [a \in (top - 1 - CONTEXT_BYTES) .. top |->
     IF a = top THEN LowByte(pc)
     ELSE IF a = top - 1 THEN HighByte(pc) ELSE 0]

\* Lines 176-185: the stack of a new process.
PrimeStack(m, pid, program) ==
  Store(m, Frame(PROCESS_STACK_BOTTOM(pid), program))

\* The mutant keeps the stack pointer at the stack bottom.
NewSlot_SpAtBottom(pid, program, priority) ==
  [state |-> OS_PS_READY, program |-> program, priority |-> priority,
   sp |-> PROCESS_STACK_BOTTOM(pid), checksum |-> 0]

\* The slot as lines 169-185 leave it (sp after the 35 post-decrements).
NewSlot(pid, program, priority) ==
  [state |-> OS_PS_READY, program |-> program, priority |-> priority,
   sp |-> PROCESS_STACK_BOTTOM(pid) - 2 - CONTEXT_BYTES, checksum |-> 0]

os_exec(program, priority, K) ==
  LET g1 == os_enterCriticalSection(K.gate) IN
  IF g1.err # "none"
  THEN [K EXCEPT !.gate = g1, !.ret = INVALID_PROCESS]
  ELSE IF program = NULL
  THEN [K EXCEPT !.gate = g1, !.ret = INVALID_PROCESS]
  ELSE LET pid == FirstUnused(K.processes) IN
       IF pid = MAX_NUMBER_OF_PROCESSES
       THEN [K EXCEPT !.gate = g1, !.ret = INVALID_PROCESS]
       ELSE [processes |-> [K.processes EXCEPT
                              ![pid] = NewSlot(pid, program, priority)],
             info  |-> os_resetProcessSchedulingInformation(K.info, pid),
             mem   |-> PrimeStack(K.mem, pid, program),
             gate  |-> os_leaveCriticalSection(g1),
             ret   |-> pid]

\* --------------------------------------------------------- os_initScheduler
RECURSIVE ExecAll(_, _)
ExecAll(list, K) ==
  IF list = <<>> THEN K
  ELSE CHOOSE R \in {ExecAll(Tail(list), K1) :
                       K1 \in {os_exec(Head(list), DEFAULT_PRIORITY, K)}} : TRUE

\* The autostart list is not empty here (see InitScheduler for the empty one).
os_initScheduler(list, K) ==
  LET K0 == [K EXCEPT !.processes =
                [i \in Slots |-> [K.processes[i] EXCEPT !.state = OS_PS_UNUSED]]]
      rest == IF list # <<>> /\ Head(list) = idle THEN Tail(list) ELSE list
  IN  CHOOSE R \in {os_exec(idle, DEFAULT_PRIORITY, K1) :
                      K1 \in {ExecAll(rest, K0)}} : TRUE

\* restoreContext: pop SREG and r31..r0, then reti pops the return address.
RestoredSP(sp) == sp + CONTEXT_BYTES + 2
RestoredPC(m, sp) ==
  Read(m, sp + CONTEXT_BYTES + 2) + 256 * Read(m, sp + CONTEXT_BYTES + 1)

\* The autostart lists the host may supply: every short list, and lists of
\* one user program long enough to fill (and overfill) the table.
AutostartLists ==
  UNION {[1 .. n -> Programs] : n \in 0 .. MaxAutostart}
  \cup {[i \in 1 .. n |-> CHOOSE p \in UserPrograms : TRUE] :
          n \in (MAX_NUMBER_OF_PROCESSES - 1) .. MAX_NUMBER_OF_PROCESSES}

ZeroInfo == [timeSlice |-> 0, age |-> [i \in Slots |-> 0]]

Init ==
  /\ os_processes = [i \in Slots |-> EmptySlot]
  /\ currentProcess = 0
  /\ currentProc = 0
  /\ actual \in Strategies
  /\ criticalSectionCount = 0
  /\ schedulingInfo = ZeroInfo
  /\ mem = <<>>
  /\ SP = BOTTOM_OF_MAIN_STACK
  /\ cpuPC = NULL
  /\ SREG_I = FALSE
  /\ OCIE2A \in BOOLEAN
  /\ error = "none"
  /\ phase = "boot"
  /\ ticks = 0
  /\ execCalls = 0
  /\ csEntry = [valid |-> FALSE, ocie |-> FALSE, gie |-> FALSE]
  /\ last = NoOp
  /\ hist = NoHist

\* Write a kernel record back to the variables.
Commit(K) ==
  /\ os_processes' = K.processes
  /\ schedulingInfo' = K.info
  /\ mem' = K.mem
  /\ criticalSectionCount' = K.gate.count
  /\ OCIE2A' = K.gate.ocie
  /\ SREG_I' = K.gate.gie
  /\ error' = K.gate.err

Alive == error = "none"

InitScheduler ==
  /\ phase = "boot" /\ Alive
  /\ \E list \in AutostartLists :
       \E wild \in BOOLEAN :
         \* autostart_head->program on an empty list reads through NULL
         IF list = <<>> /\ wild
         THEN /\ error' = "wild autostart pointer"
              /\ UNCHANGED <<os_processes, schedulingInfo, mem,
                             criticalSectionCount, OCIE2A, SREG_I>>
              /\ last' = [NoOp EXCEPT !.op = "init", !.ret = INVALID_PROCESS]
         ELSE \E K \in {os_initScheduler(list, Kernel)} :
              /\ Commit(K)
              /\ last' = [NoOp EXCEPT !.op = "init", !.ret = K.ret,
                                      !.arg = Len(list)]
  /\ phase' = "init"
  /\ csEntry' = [csEntry EXCEPT !.valid = FALSE]
  /\ UNCHANGED hist
  /\ UNCHANGED <<currentProcess, currentProc, actual, SP, cpuPC, ticks,
                 execCalls>>

StartScheduler ==
  /\ phase = "init" /\ Alive
  /\ currentProc' = 0
  /\ os_processes' = [os_processes EXCEPT ![0].state = OS_PS_RUNNING]
  /\ SP' = RestoredSP(os_processes[0].sp)
  /\ cpuPC' = RestoredPC(mem, os_processes[0].sp)
  /\ SREG_I' = TRUE
  /\ phase' = "run"
  /\ csEntry' = [csEntry EXCEPT !.valid = FALSE]
  /\ last' = [NoOp EXCEPT !.op = "start"]
  /\ UNCHANGED hist
  /\ UNCHANGED <<currentProcess, actual, criticalSectionCount,
                 schedulingInfo, mem, OCIE2A, error, ticks, execCalls>>

\* ------------------------------------------------------------- strategies
\* Every strategy takes (processes, current, info, env) and yields
\* [ret, info]; env = [rand, junk] holds the value rand() returns and the
\* byte an uninitialised array element holds.
NumberOfReadyProcs(processes) ==
  Cardinality({i \in Slots : processes[i].state = OS_PS_READY})

\* if (current == 7) current = 1; else current++;
CycleNext(current) == IF current = 7 THEN 1 ELSE current + 1

\* while(1) { advance; if READY return }.  The table is not written while
\* the loop runs, so after MAX_NUMBER_OF_PROCESSES - 1 iterations without a
\* READY slot the loop is back in a state it was in: it never exits.
RECURSIVE CyclicSearch(_, _, _)
CyclicSearch(processes, current, n) ==
  LET c == CycleNext(current) IN
  IF processes[c].state = OS_PS_READY THEN c
  ELSE IF n + 1 >= MAX_NUMBER_OF_PROCESSES - 1 THEN NoReturn
  ELSE CyclicSearch(processes, c, n + 1)

os_Scheduler_Even(processes, current, info, env) ==
  [ret  |-> IF NumberOfReadyProcs(processes) = 1 THEN 0
            ELSE CyclicSearch(processes, current, 0),
   info |-> info]

\* The ids of the READY slots in ascending order (the local array).
RECURSIVE ReadyArray(_, _)
ReadyArray(processes, i) ==
  IF i = MAX_NUMBER_OF_PROCESSES THEN <<>>
  ELSE IF processes[i].state = OS_PS_READY
       THEN <<i>> \o ReadyArray(processes, i + 1)
       ELSE ReadyArray(processes, i + 1)

\* array[(rand() % (numberOfReadyProcs - 1)) + 1]; with no READY slot the
\* divisor is -1, the index 1, and the element read was never written.
os_Scheduler_Random(processes, current, info, env) ==
  LET n == NumberOfReadyProcs(processes)
      array == ReadyArray(processes, 0)
  IN [ret  |-> IF n = 1 THEN 0
               ELSE IF n = 0 THEN env.junk
               \* C index k is element k + 1 of the sequence
               ELSE array[((env.rand % (n - 1)) + 1) + 1],
      info |-> info]

\* for (i...) if (processes[i].priority > processWithHighestPriority)
\*               processWithHighestPriority = i;
RECURSIVE PriorityScan(_, _, _)
PriorityScan(processes, i, processWithHighestPriority) ==
  IF i = MAX_NUMBER_OF_PROCESSES THEN processWithHighestPriority
  ELSE PriorityScan(processes, i + 1,
         IF processes[i].priority > processWithHighestPriority
         THEN i ELSE processWithHighestPriority)

os_Scheduler_RoundRobin(processes, current, info, env) ==
  IF processes[current].state = OS_PS_READY /\ info.timeSlice > 0
  THEN [ret |-> current, info |-> [info EXCEPT !.timeSlice = @ - 1]]
  ELSE [ret  |-> IF NumberOfReadyProcs(processes) = 1 THEN 0
                 ELSE PriorityScan(processes, 0, 0),
        info |-> info]

\* First loop: age[i] += priority[i] for every READY slot.
AgedInfo(processes, info) ==
  [info EXCEPT !.age = [i \in Slots |->
     IF processes[i].state = OS_PS_READY
     THEN info.age[i] + processes[i].priority ELSE info.age[i]]]

\* Second loop, one iteration per slot, nextProcess threaded through.
RECURSIVE OldestScan(_, _, _, _)
OldestScan(processes, age, iterator, nextProcess) ==
  IF iterator = MAX_NUMBER_OF_PROCESSES THEN nextProcess
  ELSE OldestScan(processes, age, iterator + 1,
    IF processes[iterator].state = OS_PS_READY
       /\ age[iterator] >= age[nextProcess]
    THEN IF age[iterator] = age[nextProcess]
            /\ processes[iterator].priority >= processes[nextProcess].priority
         THEN IF processes[iterator].priority > processes[nextProcess].priority
              THEN iterator ELSE nextProcess
         ELSE IF age[iterator] > age[nextProcess]
              THEN iterator ELSE nextProcess
    ELSE nextProcess)

os_Scheduler_InactiveAging(processes, current, info, env) ==
  LET aged == AgedInfo(processes, info)
      nextProcess == OldestScan(processes, aged.age, 0, 0)
  IN [ret |-> nextProcess, info |-> [aged EXCEPT !.age[nextProcess] = 0]]

os_Scheduler_RunToCompletion(processes, current, info, env) ==
  [ret  |-> IF processes[current].state = OS_PS_READY THEN current
            ELSE IF NumberOfReadyProcs(processes) = 1 THEN 0
            ELSE CyclicSearch(processes, current, 0),
   info |-> info]

os_getSchedulingStrategy == actual

\* The switch of the ISR, lines 86-113.
Dispatch(strategy, processes, current, info, env) ==
  CASE strategy = OS_SS_EVEN ->
         os_Scheduler_Even(processes, current, info, env)
    [] strategy = OS_SS_RANDOM ->
         os_Scheduler_Random(processes, current, info, env)
    [] strategy = OS_SS_RUN_TO_COMPLETION ->
         os_Scheduler_RunToCompletion(processes, current, info, env)
    [] strategy = OS_SS_ROUND_ROBIN ->
         os_Scheduler_RoundRobin(processes, current, info, env)
    [] strategy = OS_SS_INACTIVE_AGING ->
         os_Scheduler_InactiveAging(processes, current, info, env)

JunkBytes == Slots \cup {INVALID_PROCESS}
Envs == [rand : 0 .. MaxRand, junk : JunkBytes]

\* ------------------------------------------------------------ the timer ISR
\* The interrupt pushes the return address, saveContext pushes SREG and the
\* 32 registers (the model keeps the register file at zero).
SaveContext(m, sp, pc) == Store(m, Frame(sp, pc))

\* Lines 73-84: sp and checksum of the pre-empted slot, which becomes READY.
Preempt(processes, m, sp, cur) ==
  [processes EXCEPT ![cur].sp = sp - 2 - CONTEXT_BYTES,
                    ![cur].checksum = os_getStackChecksum(m, cur),
                    ![cur].state = OS_PS_READY]

\* Lines 86-113: the slot the strategy returns becomes RUNNING.
MarkRunning(processes, ret) ==
  IF ret \in Slots THEN [processes EXCEPT ![ret].state = OS_PS_RUNNING]
  ELSE processes

\* Line 116: the stack pointer restoreContext starts from.
LoadedSP(processes, cur, ret) == processes[cur].sp

\* What stops the ISR before restoreContext, or "none".
IsrFault(processes, m, cur, ret) ==
  IF ret = NoReturn THEN "scheduler never returns"
  ELSE IF ret \notin Slots THEN "write outside the table"
  ELSE IF processes[cur].checksum # os_getStackChecksum(m, cur)
       THEN "Checksum incorrect"
       ELSE "none"

\* The input is never the task-manager key (os_taskManMain is external).
\* counted: the tick counter and the tick streak are kept (and bounded);
\* otherwise only the parity of the tick counter is kept.
Tick(counted) ==
  /\ phase = "run" /\ Alive
  /\ SREG_I /\ OCIE2A
  /\ counted => ticks < MaxTicks
  /\ \E env \in IF os_getSchedulingStrategy = OS_SS_RANDOM
                THEN Envs ELSE {[rand |-> 0, junk |-> 0]} :
     \E m1 \in {SaveContext(mem, SP, cpuPC)} :
     \E p2 \in {Preempt(os_processes, m1, SP, currentProcess)} :
     \E r \in {Dispatch(os_getSchedulingStrategy, p2, currentProcess,
                        schedulingInfo, env)} :
     \E p3 \in {MarkRunning(p2, r.ret)} :
     \E loaded \in {LoadedSP(p3, currentProcess, r.ret)} :
     \E bad \in {IsrFault(p3, m1, currentProcess, r.ret)} :
          /\ mem' = m1
          /\ os_processes' = p3
          /\ schedulingInfo' = r.info
          /\ error' = bad
          /\ IF bad = "none"
             THEN /\ SP' = RestoredSP(loaded)
                  /\ cpuPC' = RestoredPC(m1, loaded)
                  /\ SREG_I' = TRUE
             ELSE /\ SP' = BOTTOM_OF_ISR_STACK
                  /\ SREG_I' = FALSE
                  /\ UNCHANGED cpuPC
          /\ last' = [op |-> "isr", ret |-> r.ret, sel |-> r.ret,
                      sp |-> loaded, arg |-> currentProcess,
                      strat |-> os_getSchedulingStrategy]
          /\ hist' = IF counted
                     THEN [hist EXCEPT
                             !.prevSel = r.ret,
                             !.run = IF hist.prevSel = r.ret THEN @ + 1 ELSE 1]
                     ELSE hist
  /\ ticks' = IF counted THEN ticks + 1 ELSE (ticks + 1) % 2
  /\ csEntry' = [csEntry EXCEPT !.valid = FALSE]
  /\ UNCHANGED <<currentProcess, currentProc, actual, criticalSectionCount,
                 OCIE2A, phase, execCalls>>

ISR == Tick(TRUE)

os_getCurrentProc == currentProc

\* ----------------------------------------------------- calls of the API
Callable == phase \in {"init", "run"} /\ Alive

\* The gate has no precondition: start-up code may use it before
\* os_initScheduler.
GateCallable == phase \in {"boot", "init", "run"} /\ Alive

\* The mask bits found when the outermost critical section is entered.
NoteEntry ==
  csEntry' = IF criticalSectionCount = 0
             THEN [valid |-> TRUE, ocie |-> OCIE2A, gie |-> SREG_I]
             ELSE csEntry

ExecCall(program, priority) ==
  /\ Callable
  /\ execCalls < MaxExecCalls
  /\ criticalSectionCount < MaxNest
  /\ \E K \in {os_exec(program, priority, Kernel)} :
       /\ Commit(K)
       /\ last' = [NoOp EXCEPT !.op = "exec", !.ret = K.ret, !.arg = program,
                               !.sel = priority]
  /\ execCalls' = execCalls + 1
  /\ csEntry' = [csEntry EXCEPT !.valid = FALSE]
  /\ hist' = [hist EXCEPT !.prevSel = NoSlot, !.run = 0]
  /\ UNCHANGED <<currentProcess, currentProc, actual, SP, cpuPC, phase, ticks>>

EnterCriticalSection ==
  /\ GateCallable
  /\ criticalSectionCount < MaxNest
  /\ \E g \in {os_enterCriticalSection(Gate)} :
       /\ criticalSectionCount' = g.count
       /\ OCIE2A' = g.ocie
       /\ SREG_I' = g.gie
       /\ error' = g.err
  /\ NoteEntry
  /\ last' = [NoOp EXCEPT !.op = "enter"]
  /\ UNCHANGED hist
  /\ UNCHANGED <<os_processes, currentProcess, currentProc, actual,
                 schedulingInfo, mem, SP, cpuPC, phase, ticks, execCalls>>

LeaveCriticalSection ==
  /\ GateCallable
  /\ \E g \in {os_leaveCriticalSection(Gate)} :
       /\ criticalSectionCount' = g.count
       /\ OCIE2A' = g.ocie
       /\ SREG_I' = g.gie
       /\ error' = g.err
  /\ last' = [NoOp EXCEPT !.op = "leave"]
  /\ UNCHANGED hist
  /\ UNCHANGED <<os_processes, currentProcess, currentProc, actual,
                 schedulingInfo, mem, SP, cpuPC, phase, ticks, execCalls,
                 csEntry>>

\* ------------------------------------------- the running program's stack
UserBytes == {165}
SlotOfSP == (BOTTOM_OF_PROCS_STACK - SP) \div STACK_SIZE_PROC

\* The running program pushes a byte.
ProcessPush ==
  /\ phase = "run" /\ Alive
  /\ SP <= BOTTOM_OF_PROCS_STACK
  /\ PROCESS_STACK_BOTTOM(SlotOfSP) - SP < MaxUserPush
  /\ \E b \in UserBytes : mem' = Store(mem, [a \in {SP} |-> b])
  /\ SP' = SP - 1
  /\ last' = [NoOp EXCEPT !.op = "push"]
  /\ UNCHANGED hist
  /\ csEntry' = [csEntry EXCEPT !.valid = FALSE]
  /\ UNCHANGED <<os_processes, currentProcess, currentProc, actual,
                 criticalSectionCount, schedulingInfo, cpuPC, SREG_I, OCIE2A,
                 error, phase, ticks, execCalls>>

\* The running program pops a byte it pushed.
ProcessPop ==
  /\ phase = "run" /\ Alive
  /\ SP <= BOTTOM_OF_PROCS_STACK
  /\ SP < PROCESS_STACK_BOTTOM(SlotOfSP)
  /\ SP' = SP + 1
  /\ last' = [NoOp EXCEPT !.op = "pop"]
  /\ UNCHANGED hist
  /\ csEntry' = [csEntry EXCEPT !.valid = FALSE]
  /\ UNCHANGED <<os_processes, currentProcess, currentProc, actual,
                 criticalSectionCount, schedulingInfo, mem, cpuPC, SREG_I,
                 OCIE2A, error, phase, ticks, execCalls>>

Priorities == 0 .. MaxPriority

\* ------------------------------------------------ os_setSchedulingStrategy
\* os_resetSchedulingInformation.  For RoundRobin the time slice is read
\* through the ProcessID os_getCurrentProc() returns, used as a pointer:
\* whatever byte is there (slice).  For InactiveAging the loop
\* while (age[0] != 0) age[0] = 0 clears age[0] only.
os_resetSchedulingInformation(strategy, info, slice) ==
  IF strategy = OS_SS_ROUND_ROBIN THEN [info EXCEPT !.timeSlice = slice]
  ELSE IF strategy = OS_SS_INACTIVE_AGING THEN [info EXCEPT !.age[0] = 0]
  ELSE info

JunkSlices == 0 .. DEFAULT_PRIORITY

\* os_setSchedulingStrategy(strategy): resets the scheduling information and
\* does nothing else.
SetSchedulingStrategy(strategy) ==
  /\ Callable
  /\ hist.events < MaxEvents
  /\ \E slice \in IF strategy = OS_SS_ROUND_ROBIN THEN JunkSlices ELSE {0} :
       schedulingInfo' =
          os_resetSchedulingInformation(strategy, schedulingInfo, slice)
  /\ last' = [NoOp EXCEPT !.op = "set", !.strat = strategy]
  /\ hist' = [hist EXCEPT !.events = @ + 1, !.requested = strategy]
  /\ csEntry' = [csEntry EXCEPT !.valid = FALSE]
  /\ UNCHANGED <<os_processes, currentProcess, currentProc, actual,
                 criticalSectionCount, mem, SP, cpuPC, SREG_I, OCIE2A, error,
                 phase, ticks, execCalls>>

\* ------------------------------------------------------- outside events
\* Code outside the scheduler changes one byte of the stack region of a
\* READY slot: the bottom byte or the lowest byte of the region.
CorruptibleAddresses(p) == {PROCESS_STACK_BOTTOM(p), StackLow(p)}

Corrupt(p, a) ==
  /\ phase = "run" /\ Alive
  /\ hist.events < MaxEvents
  /\ os_processes[p].state = OS_PS_READY
  /\ a \in CorruptibleAddresses(p)
  /\ mem' = Store(mem, [x \in {a} |-> (Read(mem, a) + 1) % 256])
  /\ last' = [NoOp EXCEPT !.op = "corrupt", !.arg = p]
  /\ hist' = [hist EXCEPT !.events = @ + 1, !.corrupted = @ \cup {p}]
  /\ csEntry' = [csEntry EXCEPT !.valid = FALSE]
  /\ UNCHANGED <<os_processes, currentProcess, currentProc, actual,
                 criticalSectionCount, schedulingInfo, SP, cpuPC, SREG_I,
                 OCIE2A, error, phase, ticks, execCalls>>

\* The program of the current slot returns: its slot becomes UNUSED.
Terminate ==
  /\ phase = "run" /\ Alive
  /\ hist.events < MaxEvents
  /\ os_processes[currentProcess].state # OS_PS_UNUSED
  /\ os_processes' = [os_processes EXCEPT
                        ![currentProcess].state = OS_PS_UNUSED]
  /\ last' = [NoOp EXCEPT !.op = "terminate", !.arg = currentProcess]
  /\ hist' = [hist EXCEPT !.events = @ + 1, !.prevSel = NoSlot, !.run = 0]
  /\ csEntry' = [csEntry EXCEPT !.valid = FALSE]
  /\ UNCHANGED <<currentProcess, currentProc, actual, criticalSectionCount,
                 schedulingInfo, mem, SP, cpuPC, SREG_I, OCIE2A, error, phase,
                 ticks, execCalls>>

Next ==
  \/ InitScheduler
  \/ StartScheduler
  \/ ISR
  \/ \E program \in Programs \cup {NULL}, priority \in Priorities :
       ExecCall(program, priority)
  \/ EnterCriticalSection
  \/ LeaveCriticalSection
  \/ ProcessPush
  \/ ProcessPop

Spec == Init /\ [][Next]_vars

\* The kernel together with what its surroundings do to it: strategy
\* changes, stack corruption and program termination.
EnvNext ==
  \/ InitScheduler
  \/ StartScheduler
  \/ ISR
  \/ \E program \in Programs \cup {NULL}, priority \in Priorities :
       ExecCall(program, priority)
  \/ \E strategy \in Strategies : SetSchedulingStrategy(strategy)
  \/ \E p \in Slots : \E a \in CorruptibleAddresses(p) : Corrupt(p, a)
  \/ Terminate

EnvSpec == Init /\ [][EnvNext]_vars

\* ------------------------------------------- the strategies on snapshots
\* StratSpec hands every strategy a process-table snapshot, a current slot
\* and a SchedulingInfo value, and records what the strategy returns.
SnapshotStates ==
  {f \in [Slots -> ProcessStates] :
     Cardinality({i \in Slots : f[i] = OS_PS_RUNNING}) <= MaxRunning}

PriorityProfiles ==
  {[i \in Slots |-> 0], [i \in Slots |-> DEFAULT_PRIORITY],
   [i \in Slots |-> (i + 1) % (DEFAULT_PRIORITY + 2)]}

AgeProfiles == {[i \in Slots |-> 0], [i \in Slots |-> (7 - i) % 3]}

Snapshot(f, prio) ==
  [i \in Slots |->
     [state |-> f[i],
      program |-> IF f[i] = OS_PS_UNUSED THEN NULL
                  ELSE IF i = 0 THEN idle ELSE CHOOSE p \in UserPrograms : TRUE,
      priority |-> prio[i], sp |-> 0, checksum |-> 0]]

\* The priorities and the SchedulingInfo a strategy reads; the others get
\* one value of each.
PrioritiesFor(s) ==
  IF s \in {OS_SS_ROUND_ROBIN, OS_SS_INACTIVE_AGING}
  THEN PriorityProfiles ELSE {[i \in Slots |-> DEFAULT_PRIORITY]}

InfosFor(s) ==
  IF s = OS_SS_ROUND_ROBIN
  THEN {[ZeroInfo EXCEPT !.timeSlice = t] : t \in {0, DEFAULT_PRIORITY}}
  ELSE IF s = OS_SS_INACTIVE_AGING
  THEN {[ZeroInfo EXCEPT !.age = a] : a \in AgeProfiles}
  ELSE {ZeroInfo}

StratInit ==
  /\ actual \in Strategies
  /\ \E f \in SnapshotStates : \E prio \in PrioritiesFor(actual) :
       os_processes = Snapshot(f, prio)
  /\ schedulingInfo \in InfosFor(actual)
  /\ currentProcess \in Slots
  /\ currentProc = 0
  /\ criticalSectionCount = 0
  /\ mem = <<>>
  /\ SP = BOTTOM_OF_ISR_STACK
  /\ cpuPC = NULL
  /\ SREG_I = FALSE
  /\ OCIE2A = TRUE
  /\ error = "none"
  /\ phase = "strat"
  /\ ticks = 0
  /\ execCalls = 0
  /\ csEntry = [valid |-> FALSE, ocie |-> FALSE, gie |-> FALSE]
  /\ last = NoOp
  /\ hist = NoHist

StrategyCall(s) ==
  /\ phase = "strat"
  /\ actual = s
  /\ ticks < MaxStratCalls
  /\ \E env \in IF s = OS_SS_RANDOM THEN Envs ELSE {[rand |-> 0, junk |-> 0]} :
     \E r \in {Dispatch(s, os_processes, currentProcess, schedulingInfo, env)} :
       /\ schedulingInfo' = r.info
       /\ last' = [op |-> "strategy", ret |-> r.ret, sel |-> r.ret,
                   sp |-> 0, arg |-> currentProcess, strat |-> s]
  /\ ticks' = ticks + 1
  /\ UNCHANGED <<os_processes, currentProcess, currentProc, actual,
                 criticalSectionCount, mem, SP, cpuPC, SREG_I, OCIE2A, error,
                 phase, execCalls, csEntry, hist>>

CallEven            == StrategyCall(OS_SS_EVEN)
CallRandom          == StrategyCall(OS_SS_RANDOM)
CallRunToCompletion == StrategyCall(OS_SS_RUN_TO_COMPLETION)
CallRoundRobin      == StrategyCall(OS_SS_ROUND_ROBIN)
CallInactiveAging   == StrategyCall(OS_SS_INACTIVE_AGING)

StratNext ==
  \/ CallEven
  \/ CallRandom
  \/ CallRunToCompletion
  \/ CallRoundRobin
  \/ CallInactiveAging

StratSpec == StratInit /\ [][StratNext]_vars

\* ------------------------------------------------- ticks without an end
\* LiveSpec: the table is filled before os_startScheduler, then the timer
\* fires for ever (only the parity of the tick counter is kept).  The timer is periodic
\* and main() runs os_initScheduler and os_startScheduler: all three are
\* weakly fair.
LiveExec(program, priority) == phase = "init" /\ ExecCall(program, priority)
LiveTick == Tick(FALSE)

LiveNext ==
  \/ InitScheduler
  \/ StartScheduler
  \/ \E program \in Programs \cup {NULL}, priority \in Priorities :
       LiveExec(program, priority)
  \/ LiveTick

LiveSpec ==
  /\ Init /\ [][LiveNext]_vars
  /\ WF_vars(InitScheduler) /\ WF_vars(StartScheduler) /\ WF_vars(LiveTick)

\* =================================================================== claims
Running == {i \in Slots : os_processes[i].state = OS_PS_RUNNING}
Unused  == {i \in Slots : os_processes[i].state = OS_PS_UNUSED}
ReadyNonIdle == {i \in Slots \ {0} : os_processes[i].state = OS_PS_READY}
Min(S) == CHOOSE x \in S : \A y \in S : x <= y

\* A step that is one call of os_exec / one run of the ISR.
ExecStep == execCalls' = execCalls + 1
IsrStep  == phase = "run" /\ ticks' = ticks + 1

\* C1: once the scheduler is started, exactly one slot is RUNNING in every
\* state outside the ISR body.
C1_ExactlyOneRunning ==
  (phase = "run" /\ Alive) => Cardinality(Running) = 1

\* C2: when the ISR finishes, os_getCurrentProc reports the slot the strategy
\* returned, that slot is RUNNING, and the stack pointer restoreContext
\* started from is that slot's saved sp.
C2_TickSwitchesToSelected ==
  (last.op = "isr" /\ Alive) =>
     /\ os_getCurrentProc = last.sel
     /\ os_processes[last.sel].state = OS_PS_RUNNING
     /\ last.sp = os_processes[last.sel].sp

\* C3: os_exec returns with the nesting counter it was called with, on every
\* exit path; called outside a critical section it leaves the counter at 0
\* and the scheduler tick unmasked.
C3_ExecLeavesCriticalSection ==
  [][ExecStep =>
       /\ criticalSectionCount' = criticalSectionCount
       /\ (criticalSectionCount = 0 => OCIE2A')]_vars

\* C4: os_exec with a null program or on a full table returns
\* INVALID_PROCESS and leaves every slot of the process table as it was.
C4_FailingExecKeepsTable ==
  [][(ExecStep /\ (last'.arg = NULL \/ Unused = {})) =>
       /\ last'.ret = INVALID_PROCESS
       /\ os_processes' = os_processes]_vars

\* C4 witness: an os_exec of a real program has just failed on a full table.
C4_Witness ==
  /\ last.op = "exec" /\ last.arg # NULL
  /\ last.ret = INVALID_PROCESS
  /\ Unused = {}

\* C5: a successful os_exec returns the lowest UNUSED slot; that slot is then
\* READY with the given program and priority, checksum 0, age 0, the primed
\* stack and sp 35 bytes below the stack bottom; no other slot changes.
C5_SuccessfulExec ==
  [][(ExecStep /\ last'.arg # NULL /\ Unused # {}) =>
       LET pid == Min(Unused)
           b   == PROCESS_STACK_BOTTOM(pid)
       IN /\ last'.ret = pid
          /\ os_processes'[pid].state = OS_PS_READY
          /\ os_processes'[pid].program = last'.arg
          /\ os_processes'[pid].priority = last'.sel
          /\ os_processes'[pid].checksum = 0
          /\ os_processes'[pid].sp = b - 35
          /\ schedulingInfo'.age[pid] = 0
          /\ Read(mem', b) = last'.arg % 256
          /\ Read(mem', b - 1) = last'.arg \div 256
          /\ \A k \in 2 .. 34 : Read(mem', b - k) = 0
          /\ \A q \in Slots \ {pid} : os_processes'[q] = os_processes[q]]_vars

\* C5 witness: an os_exec has just put a program into a slot other than the
\* first while the scheduler runs.
C5_Witness ==
  /\ phase = "run" /\ last.op = "exec"
  /\ last.ret \in Slots \ {0}
  /\ os_processes[last.ret].state = OS_PS_READY
  /\ os_processes[last.ret].program = last.arg

\* C6: while the nesting counter is above 0 the scheduler tick is masked and
\* no ISR runs, and the tick is unmasked only by a step that brings the
\* counter to 0.
C6_GateExcludesScheduler ==
  /\ [](criticalSectionCount > 0 => ~OCIE2A)
  /\ [][(IsrStep => criticalSectionCount = 0)
        /\ ((~OCIE2A /\ OCIE2A') => criticalSectionCount' = 0)]_vars

\* C6 witness: a nested critical section is open while the scheduler runs,
\* and an inner leave has kept the tick masked.
C6_Witness ==
  /\ phase = "run" /\ last.op = "leave"
  /\ criticalSectionCount > 0 /\ ~OCIE2A

\* C7: after enter/leave calls that start and end with the nesting counter
\* at 0, the timer mask bit and the global interrupt bit are what they were
\* at the start, whichever value the mask bit had.
C7_GateRestoresMask ==
  (csEntry.valid /\ Alive /\ last.op = "leave" /\ criticalSectionCount = 0) =>
     /\ OCIE2A = csEntry.ocie
     /\ SREG_I = csEntry.gie

\* C8: every strategy returns slot 0 or a slot that is READY in the snapshot.
C8_ReturnsReadyOrIdle ==
  (last.op = "strategy" /\ last.ret # NoReturn) =>
     \/ last.ret = 0
     \/ /\ last.ret \in Slots
        /\ os_processes[last.ret].state = OS_PS_READY

\* C9: with a READY slot among 1..7, Even, Random, RoundRobin and
\* InactiveAging return a slot in 1..7, and so does RunToCompletion when it
\* does not return the current slot.
C9_IdleOnlyWhenNothingElseReady ==
  (/\ last.op = "strategy" /\ last.ret # NoReturn
   /\ ReadyNonIdle # {}
   /\ (actual = OS_SS_RUN_TO_COMPLETION => last.ret # last.arg)) =>
     last.ret \in Slots \ {0}

\* C10: every strategy call returns, and it returns 0 when no slot is READY.
C10_StrategyTerminates ==
  last.op = "strategy" =>
     /\ last.ret # NoReturn
     /\ (\A i \in Slots : os_processes[i].state # OS_PS_READY) => last.ret = 0

\* ------------------------------------------------------------ C11 .. C20
ReadySlots == {i \in Slots : os_processes[i].state = OS_PS_READY}
Occupied   == {i \in Slots \ {0} : os_processes[i].state # OS_PS_UNUSED}
StratStep  == phase = "strat" /\ ticks' = ticks + 1

\* The member of S that follows slot c in ascending cyclic order.
NextCyclic(S, c) ==
  IF \E x \in S : x > c THEN Min({x \in S : x > c}) ELSE Min(S)

\* The slot of S with the highest priority, the lowest id among equals.
HighestPriority(S) ==
  Min({i \in S : \A j \in S :
         os_processes[j].priority <= os_processes[i].priority})

\* C11: after os_initScheduler slot 0 holds the idle program and is never
\* UNUSED, whatever the autostart list.
C11_IdleInSlotZero ==
  (phase \in {"init", "run"} /\ Alive) =>
     /\ os_processes[0].program = idle
     /\ os_processes[0].state # OS_PS_UNUSED

\* C12: once os_setSchedulingStrategy(s) has returned, s is the strategy
\* os_getSchedulingStrategy reports and the ISR dispatches to.
C12_SetMakesActive ==
  hist.requested # "none" => os_getSchedulingStrategy = hist.requested

\* C13: a tick that selects a slot whose stack outside code has changed
\* raises the checksum error instead of restoring the context.
C13_CorruptionDetected ==
  [][(IsrStep /\ last'.sel \in hist.corrupted) =>
       error' = "Checksum incorrect"]_vars

\* C14: under Even, while the set S of occupied non-idle slots is fixed and
\* has two members or more, each tick selects the member of S that follows
\* the previously selected one in ascending cyclic order.
C14_EvenRoundRobin ==
  [][(/\ IsrStep /\ last'.strat = OS_SS_EVEN
      /\ Cardinality(Occupied) >= 2
      /\ hist.prevSel \in Occupied) =>
       last'.sel = NextCyclic(Occupied, hist.prevSel)]_vars

\* C15: under RoundRobin (with no strategy change in between) a selected
\* slot of priority k > 0 is returned again by the next k ticks and not by
\* the tick after them, while another non-idle slot is READY.
C15_RoundRobinQuantum ==
  [][(/\ IsrStep /\ last'.strat = OS_SS_ROUND_ROBIN
      /\ hist.requested = "none"
      /\ hist.prevSel \in Slots
      /\ os_processes[hist.prevSel].priority > 0
      /\ ReadyNonIdle \ {hist.prevSel} # {}) =>
       (last'.sel = hist.prevSel
          <=> hist.run <= os_processes[hist.prevSel].priority)]_vars

\* C16: with the slice expired (time slice 0 or current not READY) and a
\* READY slot in the table, RoundRobin returns the READY slot of highest
\* priority (lowest id among equals; 0 if only idle is READY) and sets the
\* time slice to the priority of the slot it returns.
C16_RoundRobinSelection ==
  [][(/\ StratStep /\ last'.strat = OS_SS_ROUND_ROBIN
      /\ (schedulingInfo.timeSlice = 0
            \/ os_processes[currentProcess].state # OS_PS_READY)
      /\ ReadySlots # {}) =>
       /\ last'.ret \in (IF ReadyNonIdle = {} THEN {0}
                         ELSE {HighestPriority(ReadyNonIdle),
                               HighestPriority(ReadySlots)})
       /\ schedulingInfo'.timeSlice = os_processes[last'.ret].priority]_vars

\* The age of slot i after the first loop of InactiveAging.
Aged(i) ==
  IF os_processes[i].state = OS_PS_READY
  THEN schedulingInfo.age[i] + os_processes[i].priority
  ELSE schedulingInfo.age[i]

\* Slot a is before slot b under (age descending, priority descending,
\* slot id ascending).
Before(a, b) ==
  \/ Aged(a) > Aged(b)
  \/ /\ Aged(a) = Aged(b)
     /\ os_processes[a].priority > os_processes[b].priority
  \/ /\ Aged(a) = Aged(b)
     /\ os_processes[a].priority = os_processes[b].priority
     /\ a < b

\* C17: InactiveAging adds the priority to the age of every READY slot and
\* of no other, returns the READY slot that is first under the key, taken
\* over the READY slots only, and sets that slot's age to 0.
C17_InactiveAgingSelection ==
  [][(StratStep /\ last'.strat = OS_SS_INACTIVE_AGING /\ ReadySlots # {}) =>
       LET w == CHOOSE a \in ReadySlots :
                  \A b \in ReadySlots \ {a} : Before(a, b)
       IN /\ last'.ret = w
          /\ \A i \in Slots :
               schedulingInfo'.age[i] = IF i = w THEN 0 ELSE Aged(i)]_vars

\* C18: while no outside code has changed a stack, no tick raises the
\* checksum error, and when the ISR restores the context the stored
\* checksum of the selected slot is the checksum of that slot's stack.
C18_NoFalseAlarm ==
  (last.op = "isr" /\ hist.corrupted = {}) =>
     /\ error # "Checksum incorrect"
     /\ (Alive => os_processes[last.sel].checksum
                    = os_getStackChecksum(mem, last.sel))

\* C19: under RunToCompletion a tick selects the current slot again unless
\* that slot has become UNUSED; then the slot stays UNUSED and the tick
\* selects the READY slot that follows it in Even's cyclic order.
C19_RunToCompletion ==
  [][(IsrStep /\ last'.strat = OS_SS_RUN_TO_COMPLETION) =>
       IF os_processes[currentProcess].state # OS_PS_UNUSED
       THEN last'.sel = currentProcess
       ELSE /\ os_processes'[currentProcess].state = OS_PS_UNUSED
            /\ (ReadyNonIdle # {} =>
                  last'.sel = NextCyclic(ReadyNonIdle, currentProcess))]_vars

\* The slots that os_exec fills first after an autostart list of at most
\* one program.
WatchedSlots == {1, 2}

\* C20: under InactiveAging, with the timer running, every occupied
\* non-idle slot of priority above 0 is selected again and again.
C20_AgingNoStarvation ==
  \A p \in WatchedSlots :
    []((/\ phase = "run" /\ Alive /\ OCIE2A
        /\ actual = OS_SS_INACTIVE_AGING
        /\ os_processes[p].state # OS_PS_UNUSED
        /\ os_processes[p].program # idle
        /\ os_processes[p].priority > 0)
       => <>(last.op = "isr" /\ last.sel = p))
====
